---- MODULE Spec2Model ----
(***************************************************************************)
(* A model of cl/corpus_importer/management/commands/upload_to_ia.py: the  *)
(* bounded dispatch runs (free documents, non-free documents, oral         *)
(* arguments, the routine of all three) and the continuous docket sweep    *)
(* (upload_recap_data) with its redis cursor.                              *)
(*                                                                         *)
(* Nullable columns are modelled as sets: {} is SQL NULL / Python None,      *)
(* {v} is the value v.                                                     *)
(***************************************************************************)
EXTENDS Integers, Sequences, FiniteSets, TLC

\* ------------------------------------------------------------------ bounds
NumDocs == 2            \* RECAPDocument rows, pk 1..NumDocs
NumAudio == 2           \* Audio rows, pk 1..NumAudio
MaxEnvSteps == 1        \* changes the external worker / ingestion makes during a run
MaxDocket == 3          \* Docket pks range over 1..MaxDocket
chunk_size == 2         \* rows per chunk query (100 in the source)
MaxKills == 1           \* terminations of the sweep process
MaxInserts == 1         \* dockets inserted while the sweep runs
MaxWraps == 2           \* the history counts resets up to this number

\* ------------------------------------------------- constants of the program
FailureLimit == 3       \* ia_upload_failure_count__lt=3
Ceiling == 1            \* the throttle's ceiling on the depth of the lane
Stride == 2             \* the throttle re-queries the depth once per Stride calls
LogEvery == 1           \* a progress line every LogEvery rows (1000 in the source)
NumFd == 2              \* FinancialDisclosure instances in memory
MaxFdPk == 2            \* explicit pks of an instance range over 0..MaxFdPk
MaxSaves == 3           \* calls of FinancialDisclosure.save

DocIds == 1..NumDocs
AudioIds == 1..NumAudio
Lanes == {"batch1", "batch2"}

\* parser.add_argument('--queue', default='batch1'): options['queue'] is the
\* value given on the command line ({} = the option is absent), or the default.
DefaultQueue == "batch1"
QueueArgs == {{}} \cup {{lane} : lane \in Lanes}
QueueOption(given) == IF given = {} THEN DefaultQueue ELSE CHOOSE lane \in given : TRUE

\* The depths the introspection call reports: below, at and above the ceiling.
Depths == 0..(Ceiling + 1)

\* ---------------------------------------------------------------- records
NullableCount == {{}} \cup {{n} : n \in {FailureLimit - 1, FailureLimit}}
NullableBool == {{}, {TRUE}, {FALSE}}

RECAPDocument ==
    [is_available : BOOLEAN,
     filepath_local : {"", "local.pdf"},
     filepath_ia : {"", "ia.pdf"},
     ia_upload_failure_count : NullableCount,
     is_free_on_pacer : NullableBool]

Audio ==
    [is_available : BOOLEAN,
     local_path_mp3 : {"", "local.mp3"},
     filepath_ia : {"", "ia.mp3"},
     ia_upload_failure_count : NullableCount]

\* The rows 2..N of a store are drawn from these: rows that differ only in the
\* column that separates the modes, a row that has reached the failure limit,
\* and a row ingestion has not made available yet.
CoreDocs ==
    {r \in RECAPDocument :
        /\ r.filepath_ia = ""
        /\ r.is_available = (r.filepath_local # "")
        /\ r.ia_upload_failure_count \in {{}, {FailureLimit}}
        /\ (r.ia_upload_failure_count = {FailureLimit} \/ ~r.is_available)
              => r.is_free_on_pacer = {TRUE}
        /\ ~r.is_available => r.ia_upload_failure_count = {}}

CoreAudio ==
    {r \in Audio :
        /\ r.is_available
        /\ r.local_path_mp3 # ""
        /\ r.ia_upload_failure_count = {}}

\* ---------------------------------------------------------------- actions
\* Command.VALID_ACTIONS: the bounded handlers; each runs these phases in order.
Phases == {"free", "nonfree", "audio"}

\* PhasesOf with the oral arguments first in the routine.
PhasesOf_AudioFirst(a) ==
    CASE a = "do-routing-uploads" -> <<"audio", "free", "nonfree">>
      [] a = "upload-pdfs-to-ia" -> <<"free">>
      [] a = "upload-non-free-pdfs-to-ia" -> <<"nonfree">>
      [] a = "upload-oral-arguments-to-ia" -> <<"audio">>

PhasesOf(a) ==
    CASE a = "do-routing-uploads" -> <<"free", "nonfree", "audio">>
      [] a = "upload-pdfs-to-ia" -> <<"free">>
      [] a = "upload-non-free-pdfs-to-ia" -> <<"nonfree">>
      [] a = "upload-oral-arguments-to-ia" -> <<"audio">>

BoundedActions ==
    {"do-routing-uploads", "upload-pdfs-to-ia", "upload-non-free-pdfs-to-ia",
     "upload-oral-arguments-to-ia"}

\* ---------------------------------------------------------------- queries
\* BaseDocQuery with the failure limit included (__lte for __lt).
BaseDocQuery_LimitIncluded(db) ==
    {pk \in DOMAIN db :
        /\ \/ \E n \in db[pk].ia_upload_failure_count : n <= FailureLimit
           \/ db[pk].ia_upload_failure_count = {}
        /\ db[pk].is_available = TRUE
        /\ db[pk].filepath_ia = ""
        /\ ~(db[pk].filepath_local = "")}

\* RECAPDocument.objects.filter(Q(ia_upload_failure_count__lt=3) |
\*   Q(ia_upload_failure_count=None), is_available=True, filepath_ia='')
\*   .exclude(filepath_local='')
BaseDocQuery(db) ==
    {pk \in DOMAIN db :
        /\ \/ \E n \in db[pk].ia_upload_failure_count : n < FailureLimit
           \/ db[pk].ia_upload_failure_count = {}
        /\ db[pk].is_available = TRUE
        /\ db[pk].filepath_ia = ""
        /\ ~(db[pk].filepath_local = "")}

\* DocQuery without the Q(is_free_on_pacer=None) branch.
DocQuery_NullDropped(db, do_non_free) ==
    IF do_non_free
    THEN {pk \in BaseDocQuery(db) : db[pk].is_free_on_pacer = {FALSE}}
    ELSE {pk \in BaseDocQuery(db) : db[pk].is_free_on_pacer = {TRUE}}

\* DocQuery with the rows whose flag is NULL taken by the free mode as well.
DocQuery_NullInBoth(db, do_non_free) ==
    IF do_non_free
    THEN {pk \in BaseDocQuery(db) :
            \/ db[pk].is_free_on_pacer = {FALSE}
            \/ db[pk].is_free_on_pacer = {}}
    ELSE {pk \in BaseDocQuery(db) : db[pk].is_free_on_pacer # {FALSE}}

\* rds.filter(Q(is_free_on_pacer=False) | Q(is_free_on_pacer=None)) when
\* do_non_free, rds.filter(is_free_on_pacer=True) otherwise.
DocQuery(db, do_non_free) ==
    IF do_non_free
    THEN {pk \in BaseDocQuery(db) :
            \/ db[pk].is_free_on_pacer = {FALSE}
            \/ db[pk].is_free_on_pacer = {}}
    ELSE {pk \in BaseDocQuery(db) : db[pk].is_free_on_pacer = {TRUE}}

\* Audio.objects.filter(Q(ia_upload_failure_count__lt=3) |
\*   Q(ia_upload_failure_count=None), filepath_ia='').exclude(local_path_mp3='')
AudioQuery(db) ==
    {pk \in DOMAIN db :
        /\ \/ \E n \in db[pk].ia_upload_failure_count : n < FailureLimit
           \/ db[pk].ia_upload_failure_count = {}
        /\ db[pk].filepath_ia = ""
        /\ ~(db[pk].local_path_mp3 = "")}

\* Orderings in which a row may come back twice.
Orderings_WithRepeats(S) == [1..Cardinality(S) -> S]

\* .order_by() with no argument clears the ordering: the rows of a result set
\* come back in whatever order the data store produces them.
Orderings(S) ==
    {s \in [1..Cardinality(S) -> S] : \A a, b \in 1..Cardinality(S) : a # b => s[a] # s[b]}

\* ------------------------------------------------------------------ state
VARIABLES
    docs,       \* RECAPDocument table: pk -> row
    audio,      \* Audio table: pk -> row
    action,     \* the --action the command was started with
    q,          \* options['queue']
    phases,     \* the dispatch functions still to run; the head is running
    pc,         \* position inside the running dispatch function
    count,      \* the local count
    rds,        \* the rows the iteration query returned, in the order returned
    i,          \* enumerate() index: rows of rds already handled
    throttle,   \* the CeleryThrottle of the running function
    observed,   \* depth maybe_wait last read in the current call ({} = not read)
    slept,      \* whether the current maybe_wait call has slept
    queue,      \* tasks handed to the broker, in order
    trace,      \* history of the run: log lines, completed maybe_wait calls, submissions
    snap,       \* history: phase -> the table as it was when the phase's rows were read
    touched,    \* history: phases during which the table was changed from outside
    envSteps,   \* changes made from outside so far
    dockets,    \* Docket table: pk -> "absent", or the kind of the row's source
    redis,      \* the key 'recap-docket-last-id': {} when absent, {n} otherwise
    spc,        \* position of the upload_recap_data process
    last_pk,    \* its local last_pk
    previous_last_pk,   \* its local previous_last_pk
    ds,         \* the lower bound on pk that the queryset ds was built with
    chunk,      \* rows of the running for loop not yet visited
    kills,      \* times the process was terminated from outside
    inserts,    \* dockets inserted while the sweep ran
    loaded,     \* history: what the key held when this process read it
    stopped,    \* history: what the key held when the last process was terminated
    done,       \* history: pks this process handled since it last reset last_pk
    fetched,    \* history: the last two chunk queries of this process
    wraps,      \* history: resets of last_pk by this process (saturating)
    late,       \* history: dockets inserted behind last_pk in this sweep (behind) and
                \* in the sweep before it (owed)
    peer,       \* a second upload_recap_data process on the same key: its locals
    prior,      \* history: what the run before this one of the same action submitted
    fd          \* FinancialDisclosure: instances, table, pk sequence, tasks enqueued

dvars == <<docs, audio, action, q, phases, pc, count, rds, i, throttle, observed,
           slept, queue, trace, snap, touched, envSteps>>

svars == <<dockets, redis, spc, last_pk, previous_last_pk, ds, chunk, kills, inserts,
           loaded, stopped, done, fetched, wraps, late, peer>>

ovars == <<prior, fd>>

vars == <<dvars, svars, ovars>>

\* A dispatch function is running: not returned, not ended by an exception.
Running == phases # <<>> /\ pc # "raised"
phase == Head(phases)

\* Stores the runs start from. In a "full" store the first row ranges over every
\* combination of column values and the others over the core rows; a "core"
\* store holds core rows only; the table a single-phase action never reads is
\* the one "fixed" store.
FixedDoc ==
    [is_available |-> TRUE, filepath_local |-> "local.pdf", filepath_ia |-> "",
     ia_upload_failure_count |-> {}, is_free_on_pacer |-> {TRUE}]

FixedAudio ==
    [is_available |-> TRUE, local_path_mp3 |-> "local.mp3", filepath_ia |-> "",
     ia_upload_failure_count |-> {}]

DocStores(kind) ==
    CASE kind = "full" ->
            {[pk \in DocIds |-> IF pk = 1 THEN r ELSE db[pk]] :
                r \in RECAPDocument, db \in [DocIds \ {1} -> CoreDocs]}
      [] kind = "core" -> [DocIds -> CoreDocs]
      [] kind = "fixed" -> {[pk \in DocIds |-> FixedDoc]}

AudioStores(kind) ==
    CASE kind = "full" ->
            {[pk \in AudioIds |-> IF pk = 1 THEN r ELSE db[pk]] :
                r \in Audio, db \in [AudioIds \ {1} -> CoreAudio]}
      [] kind = "core" -> [AudioIds -> CoreAudio]
      [] kind = "fixed" -> {[pk \in AudioIds |-> FixedAudio]}

\* A single-phase action starts from a "full" store of the table it reads in a
\* quiet world (the budget of outside changes spent), or from a "core" store in
\* a world that changes rows; the routine starts from "core" stores in a quiet
\* world.
StoreKind(a, table, quiet) ==
    IF a = "do-routing-uploads" THEN "core"
    ELSE IF (a = "upload-oral-arguments-to-ia") # (table = "audio") THEN "fixed"
    ELSE IF quiet THEN "full"
    ELSE "core"

DispatchInit ==
    /\ action \in BoundedActions
    /\ q \in Lanes
    /\ envSteps \in {0, MaxEnvSteps}
    /\ action = "do-routing-uploads" => envSteps = MaxEnvSteps
    /\ docs \in DocStores(StoreKind(action, "docs", envSteps = MaxEnvSteps))
    /\ audio \in AudioStores(StoreKind(action, "audio", envSteps = MaxEnvSteps))
    /\ phases = PhasesOf(action)
    /\ pc = "start"
    /\ count = 0
    /\ rds = <<>>
    /\ i = 0
    /\ throttle = [queue_name |-> q, calls |-> 0]
    /\ observed = {}
    /\ slept = FALSE
    /\ queue = <<>>
    /\ trace = <<>>
    /\ snap = [p \in Phases |-> <<>>]
    /\ touched = {}

\* The function returns: the next phase of the routine starts, or the command ends.
Return(ph) == IF Tail(ph) = <<>> THEN "done" ELSE "start"

\* NextRow stuck on the first row.
NextRow_First(rows, idx) == rows[1]

\* for i, rd in enumerate(rds): the row the loop body handles at index idx
NextRow(rows, idx) == rows[idx + 1]

\* LoopBody without the call of the throttle.
LoopBody_NoWait == "submit"

\* The loop goes round: the body starts with throttle.maybe_wait().
LoopBody == "wait"

\* NewThrottle watching the default lane whatever --queue says.
NewThrottle_DefaultLane(lane) == [queue_name |-> DefaultQueue, calls |-> 0]

\* CeleryThrottle(queue_name=q)
NewThrottle(lane) == [queue_name |-> lane, calls |-> 0]

\* ------------------------------------------- upload_pdfs_to_internet_archive
\* count = rds.count(); logger.info(...); throttle = CeleryThrottle(queue_name=q)
upload_pdfs_count ==
    /\ Running /\ pc = "start" /\ phase \in {"free", "nonfree"}
    /\ count' = Cardinality(DocQuery(docs, phase = "nonfree"))
    /\ throttle' = NewThrottle(q)
    /\ trace' = Append(trace, [ev |-> "sending", phase |-> phase, n |-> count'])
    /\ pc' = "iterate"
    /\ UNCHANGED <<svars, ovars, docs, audio, action, q, phases, rds, i, observed, slept, queue,
                   snap, touched, envSteps>>

\* upload_pdfs_iterate leaving out the pks the run before submitted.
upload_pdfs_iterate_SkipsSent ==
    /\ Running /\ pc = "iterate" /\ phase \in {"free", "nonfree"}
    /\ \E s \in Orderings(DocQuery(docs, phase = "nonfree") \ prior.submitted[phase]) :
        /\ rds' = s
        /\ i' = 0
        /\ snap' = [snap EXCEPT ![phase] = <<docs>>]
        /\ IF s = <<>>
           THEN /\ phases' = Tail(phases)
                /\ pc' = Return(phases)
           ELSE /\ phases' = phases
                /\ pc' = LoopBody
    /\ UNCHANGED <<svars, ovars, docs, audio, action, q, count, throttle, observed, slept,
                   queue, trace, touched, envSteps>>

\* for i, rd in enumerate(rds): the queryset is evaluated, in the store's order
upload_pdfs_iterate ==
    /\ Running /\ pc = "iterate" /\ phase \in {"free", "nonfree"}
    /\ \E s \in Orderings(DocQuery(docs, phase = "nonfree")) :
        /\ rds' = s
        /\ i' = 0
        /\ snap' = [snap EXCEPT ![phase] = <<docs>>]
        /\ IF s = <<>>
           THEN /\ phases' = Tail(phases)
                /\ pc' = Return(phases)
           ELSE /\ phases' = phases
                /\ pc' = LoopBody
    /\ UNCHANGED <<svars, ovars, docs, audio, action, q, count, throttle, observed, slept, queue,
                   trace, touched, envSteps>>

\* ProgressLine counting the row of the current round as sent.
ProgressLine_CountsCurrent(tr, ph, idx, total) ==
    IF (idx + 1) % LogEvery = 0
    THEN Append(tr, [ev |-> "sent", phase |-> ph, n |-> idx + 1, total |-> total])
    ELSE tr

\* OnQueryError with the query tried again.
OnQueryError_Retried == "start"

\* An exception of the data store is caught nowhere in the dispatch functions,
\* do_routine_uploads or Command.handle: the command ends with it.
OnQueryError == "raised"

\* rds.count() raises (the data store is unavailable).
upload_pdfs_count_raises ==
    /\ Running /\ pc = "start" /\ phase \in {"free", "nonfree"}
    /\ trace' = Append(trace, [ev |-> "query_error", phase |-> phase])
    /\ pc' = OnQueryError
    /\ UNCHANGED <<svars, ovars, docs, audio, action, q, phases, count, rds, i, throttle, observed,
                   slept, queue, snap, touched, envSteps>>

\* The evaluation of rds for the loop raises.
upload_pdfs_iterate_raises ==
    /\ Running /\ pc = "iterate" /\ phase \in {"free", "nonfree"}
    /\ trace' = Append(trace, [ev |-> "query_error", phase |-> phase])
    /\ pc' = OnQueryError
    /\ UNCHANGED <<svars, ovars, docs, audio, action, q, phases, count, rds, i, throttle, observed,
                   slept, queue, snap, touched, envSteps>>

\* pdf = upload_pdf_to_ia.si(rd).set(queue=q).apply_async(), after the progress
\* line: if i > 0 and i % 1000 == 0: logger.info("Sent %s/%s tasks ...", i, count)
ProgressLine(tr, ph, idx, total) ==
    IF idx > 0 /\ idx % LogEvery = 0
    THEN Append(tr, [ev |-> "sent", phase |-> ph, n |-> idx, total |-> total])
    ELSE tr

\* upload_pdfs_submit recording the upload on the row.
upload_pdfs_submit_MarksRow ==
    /\ Running /\ pc = "submit" /\ phase \in {"free", "nonfree"}
    /\ queue' = Append(queue, [task |-> "upload_pdf_to_ia", pk |-> NextRow(rds, i), queue |-> q])
    /\ trace' = Append(ProgressLine(trace, phase, i, count),
                       [ev |-> "submit", phase |-> phase, pk |-> NextRow(rds, i), lane |-> q])
    /\ docs' = [docs EXCEPT ![NextRow(rds, i)].filepath_ia = "ia.pdf"]
    /\ i' = i + 1
    /\ observed' = {}
    /\ slept' = FALSE
    /\ IF i + 1 = Len(rds)
       THEN /\ phases' = Tail(phases)
            /\ pc' = Return(phases)
       ELSE /\ phases' = phases
            /\ pc' = LoopBody
    /\ UNCHANGED <<svars, ovars, audio, action, q, count, rds, throttle, snap, touched, envSteps>>

upload_pdfs_submit ==
    /\ Running /\ pc = "submit" /\ phase \in {"free", "nonfree"}
    /\ queue' = Append(queue, [task |-> "upload_pdf_to_ia", pk |-> NextRow(rds, i), queue |-> q])
    /\ trace' = Append(ProgressLine(trace, phase, i, count),
                       [ev |-> "submit", phase |-> phase, pk |-> NextRow(rds, i), lane |-> q])
    /\ i' = i + 1
    /\ observed' = {}
    /\ slept' = FALSE
    /\ IF i + 1 = Len(rds)
       THEN /\ phases' = Tail(phases)
            /\ pc' = Return(phases)
       ELSE /\ phases' = phases
            /\ pc' = LoopBody
    /\ UNCHANGED <<svars, ovars, docs, audio, action, q, count, rds, throttle,
                   snap, touched, envSteps>>

\* apply_async() raises (the broker does not take the message): neither the loop
\* nor Command.handle catches the exception, and the command ends with it. The
\* progress line of this round was written before the call.
upload_pdfs_submit_raises ==
    /\ Running /\ pc = "submit" /\ phase \in {"free", "nonfree"}
    /\ trace' = Append(ProgressLine(trace, phase, i, count),
                       [ev |-> "raised", phase |-> phase, pk |-> NextRow(rds, i), lane |-> q])
    /\ observed' = {}
    /\ slept' = FALSE
    /\ pc' = "raised"
    /\ UNCHANGED <<svars, ovars, docs, audio, action, q, phases, count, rds, i, throttle, queue,
                   snap, touched, envSteps>>

\* ---------------------------------- upload_oral_arguments_to_internet_archive
\* count = len(af_pks) evaluates the queryset; the loop iterates the same rows.
upload_oral_arguments_query ==
    /\ Running /\ pc = "start" /\ phase = "audio"
    /\ \E s \in Orderings(AudioQuery(audio)) :
        /\ rds' = s
        /\ count' = Len(s)
        /\ i' = 0
        /\ snap' = [snap EXCEPT ![phase] = <<audio>>]
        /\ trace' = Append(trace, [ev |-> "sending", phase |-> phase, n |-> Len(s)])
        /\ IF s = <<>>
           THEN /\ phases' = Tail(phases)
                /\ pc' = Return(phases)
           ELSE /\ phases' = phases
                /\ pc' = LoopBody
    /\ throttle' = NewThrottle(q)
    /\ UNCHANGED <<svars, ovars, docs, audio, action, q, observed, slept, queue, touched, envSteps>>

upload_oral_arguments_submit ==
    /\ Running /\ pc = "submit" /\ phase = "audio"
    /\ queue' = Append(queue, [task |-> "upload_audio_to_ia", pk |-> NextRow(rds, i), queue |-> q])
    /\ trace' = Append(ProgressLine(trace, phase, i, count),
                       [ev |-> "submit", phase |-> phase, pk |-> NextRow(rds, i), lane |-> q])
    /\ i' = i + 1
    /\ observed' = {}
    /\ slept' = FALSE
    /\ IF i + 1 = Len(rds)
       THEN /\ phases' = Tail(phases)
            /\ pc' = Return(phases)
       ELSE /\ phases' = phases
            /\ pc' = LoopBody
    /\ UNCHANGED <<svars, ovars, docs, audio, action, q, count, rds, throttle,
                   snap, touched, envSteps>>

\* len(af_pks) raises (the data store is unavailable).
upload_oral_arguments_query_raises ==
    /\ Running /\ pc = "start" /\ phase = "audio"
    /\ trace' = Append(trace, [ev |-> "query_error", phase |-> phase])
    /\ pc' = OnQueryError
    /\ UNCHANGED <<svars, ovars, docs, audio, action, q, phases, count, rds, i, throttle, observed,
                   slept, queue, snap, touched, envSteps>>

\* apply_async() raises: as in upload_pdfs_submit_raises.
upload_oral_arguments_submit_raises ==
    /\ Running /\ pc = "submit" /\ phase = "audio"
    /\ trace' = Append(ProgressLine(trace, phase, i, count),
                       [ev |-> "raised", phase |-> phase, pk |-> NextRow(rds, i), lane |-> q])
    /\ observed' = {}
    /\ slept' = FALSE
    /\ pc' = "raised"
    /\ UNCHANGED <<svars, ovars, docs, audio, action, q, phases, count, rds, i, throttle, queue,
                   snap, touched, envSteps>>

\* ------------------------------------------------ CeleryThrottle.maybe_wait
\* The call: every Stride-th call reads the depth of the lane, the others
\* return at once.
ReadsDepth(t) == t.calls = 0

maybe_wait ==
    /\ Running /\ pc = "wait"
    /\ throttle' = [throttle EXCEPT !.calls = (throttle.calls + 1) % Stride]
    /\ observed' = {}
    /\ slept' = FALSE
    /\ IF ReadsDepth(throttle)
       THEN /\ pc' = "poll"
            /\ trace' = trace
       ELSE /\ pc' = "submit"
            /\ trace' = Append(trace, [ev |-> "waited", phase |-> phase,
                                       lane |-> throttle.queue_name])
    /\ UNCHANGED <<svars, ovars, docs, audio, action, q, phases, count, rds, i, queue, snap,
                   touched, envSteps>>

\* UnderCeiling off by one.
UnderCeiling_Lenient(d) == d <= Ceiling + 1

\* The depth lets the caller go on.
UnderCeiling(d) == d <= Ceiling

\* One reading of the depth of the lane, which other producers and the
\* consumers set: the call returns, or goes to sleep for a poll interval.
maybe_wait_poll ==
    /\ Running /\ pc = "poll"
    /\ \E d \in Depths :
        /\ observed' = {d}
        /\ IF UnderCeiling(d)
           THEN /\ pc' = "submit"
                /\ trace' = Append(trace, [ev |-> "waited", phase |-> phase,
                                           lane |-> throttle.queue_name])
           ELSE /\ pc' = "sleep"
                /\ trace' = trace
    /\ UNCHANGED <<svars, ovars, docs, audio, action, q, phases, count, rds, i, throttle, slept,
                   queue, snap, touched, envSteps>>

\* OnIntrospectionError letting the error out of the call.
OnIntrospectionError_Fatal == "raised"

\* Where the caller is after a depth query that failed: back in the loop body,
\* about to submit.
OnIntrospectionError == "submit"

\* The depth query fails: the call logs the error and returns as if the depth
\* were under the ceiling.
maybe_wait_poll_error ==
    /\ Running /\ pc = "poll"
    /\ observed' = {}
    /\ trace' = trace \o <<[ev |-> "introspection_error", phase |-> phase,
                              lane |-> throttle.queue_name],
                            [ev |-> "waited", phase |-> phase,
                              lane |-> throttle.queue_name]>>
    /\ pc' = OnIntrospectionError
    /\ UNCHANGED <<svars, ovars, docs, audio, action, q, phases, count, rds, i, throttle, slept,
                   queue, snap, touched, envSteps>>

maybe_wait_sleep ==
    /\ Running /\ pc = "sleep"
    /\ slept' = TRUE
    /\ pc' = "poll"
    /\ UNCHANGED <<svars, ovars, docs, audio, action, q, phases, count, rds, i, throttle, observed,
                   queue, trace, snap, touched, envSteps>>

\* ------------------------------------------------- the world outside the run
\* The upload tasks the queue's consumers run, and ingestion, change rows while
\* a run is under way.
Bump(c) == IF c = {} THEN {1} ELSE {IF n < FailureLimit THEN n + 1 ELSE n : n \in c}

worker_uploaded ==
    /\ Running /\ envSteps < MaxEnvSteps
    /\ \/ \E pk \in DocIds :
            /\ docs[pk].filepath_ia = ""
            /\ docs' = [docs EXCEPT ![pk].filepath_ia = "ia.pdf"]
            /\ audio' = audio
       \/ \E pk \in AudioIds :
            /\ audio[pk].filepath_ia = ""
            /\ audio' = [audio EXCEPT ![pk].filepath_ia = "ia.mp3"]
            /\ docs' = docs
    /\ touched' = touched \cup {phase}
    /\ envSteps' = envSteps + 1
    /\ UNCHANGED <<svars, ovars, action, q, phases, pc, count, rds, i, throttle, observed, slept,
                   queue, trace, snap>>

worker_failed ==
    /\ Running /\ envSteps < MaxEnvSteps
    /\ \/ \E pk \in DocIds :
            /\ docs[pk].ia_upload_failure_count # {FailureLimit}
            /\ docs' = [docs EXCEPT ![pk].ia_upload_failure_count = Bump(@)]
            /\ audio' = audio
       \/ \E pk \in AudioIds :
            /\ audio[pk].ia_upload_failure_count # {FailureLimit}
            /\ audio' = [audio EXCEPT ![pk].ia_upload_failure_count = Bump(@)]
            /\ docs' = docs
    /\ touched' = touched \cup {phase}
    /\ envSteps' = envSteps + 1
    /\ UNCHANGED <<svars, ovars, action, q, phases, pc, count, rds, i, throttle, observed, slept,
                   queue, trace, snap>>

ingested ==
    /\ Running /\ envSteps < MaxEnvSteps
    /\ \E pk \in DocIds :
        /\ ~docs[pk].is_available \/ docs[pk].filepath_local = ""
        /\ docs' = [docs EXCEPT ![pk].is_available = TRUE,
                                ![pk].filepath_local = "local.pdf"]
    /\ touched' = touched \cup {phase}
    /\ envSteps' = envSteps + 1
    /\ UNCHANGED <<svars, ovars, audio, action, q, phases, pc, count, rds, i, throttle, observed,
                   slept, queue, trace, snap>>

\* ======================================================== upload_recap_data
DocketIds == 1..MaxDocket

\* Python values of last_pk: None, a string read from redis, an int.
PyNone == [t |-> "none", v |-> 0]
PyStr(n) == [t |-> "str", v |-> n]
PyInt(n) == [t |-> "int", v |-> n]

\* GetSet returning what the key holds after the write.
GetSet_AfterWrite(key) == PyStr(0)

\* r.getset(redis_key, 0) returns what the key held: None when absent, else
\* the stored bytes.
GetSet(key) == IF key = {} THEN PyNone ELSE PyStr(CHOOSE n \in key : TRUE)

\* Matching without the filter on last_pk.
Matching_IgnoresLast(db, gt, last) ==
    {pk \in DOMAIN db : db[pk] = "recap" /\ pk > gt}

\* Docket.objects.filter(source__in=Docket.RECAP_SOURCES, pk__gt=...)
\*   .order_by('pk').filter(pk__gt=last_pk)[:chunk_size]
Matching(db, gt, last) ==
    {pk \in DOMAIN db : db[pk] = "recap" /\ pk > gt /\ pk > last.v}

RECURSIVE Ascending(_)
Ascending(S) ==
    IF S = {} THEN <<>>
    ELSE LET m == CHOOSE x \in S : \A y \in S : x <= y
         IN <<m>> \o Ascending(S \ {m})

Limit(s, n) == SubSeq(s, 1, IF Len(s) < n THEN Len(s) ELSE n)

ChunkQuery(db, gt, last) == Limit(Ascending(Matching(db, gt, last)), chunk_size)

SweepRunning == spc \in {"fetch", "for", "set", "check"}

\* No run before this one.
NoPrior ==
    [runs |-> 0, submitted |-> [p \in {"free", "nonfree", "audio"} |-> {}],
     table |-> [p \in {"free", "nonfree", "audio"} |-> <<>>]]

\* self.pk of an instance: {} is None, {n} the value n.
FdPks == {{}} \cup {{n} : n \in 0..MaxFdPk}

\* No FinancialDisclosure saved: the instances unsaved, the table empty, the
\* pk sequence at its first value.
NoDisclosures ==
    [objs |-> [o \in 1..NumFd |-> {}], table |-> {}, seq |-> 1, tasks |-> <<>>,
     saves |-> 0, last |-> [obj |-> 0, new |-> FALSE, pk |-> {}, saved |-> FALSE]]

\* Neither a run before this one nor a disclosure.
OthersIdle == prior = NoPrior /\ fd = NoDisclosures

\* No docket inserted behind last_pk.
NoneLate == [behind |-> {}, owed |-> {}]

\* No second process.
PeerIdle ==
    [spc |-> "idle", last_pk |-> PyNone, previous_last_pk |-> PyNone, ds |-> 0,
     chunk |-> <<>>, done |-> <<>>, wrapped |-> FALSE]

\* r = redis.StrictRedis(...); last_pk = r.getset(redis_key, 0); ds = ...;
\* previous_last_pk = None. pk__gt=None is refused with a ValueError.
upload_recap_data ==
    /\ spc \in {"start", "stopped"}
    /\ loaded' = redis
    /\ redis' = {0}
    /\ last_pk' = GetSet(redis)
    /\ IF GetSet(redis) = PyNone
       THEN /\ spc' = "raised"
            /\ ds' = 0
       ELSE /\ spc' = "fetch"
            /\ ds' = GetSet(redis).v
    /\ previous_last_pk' = PyNone
    /\ chunk' = <<>>
    /\ done' = <<>>
    /\ fetched' = <<>>
    /\ wraps' = 0
    /\ late' = NoneLate
    /\ UNCHANGED <<dvars, ovars, peer, dockets, kills, inserts, stopped>>

\* for d in ds.filter(pk__gt=last_pk)[:chunk_size]: the query runs
sweep_fetch ==
    /\ spc = "fetch"
    /\ chunk' = ChunkQuery(dockets, ds, last_pk)
    /\ fetched' = Limit(<<[cursor |-> last_pk.v,
                           gt |-> IF ds > last_pk.v THEN ds ELSE last_pk.v,
                           rows |-> chunk',
                           first |-> fetched = <<>> /\ wraps = 0]>> \o fetched, 2)
    /\ spc' = IF chunk' = <<>> THEN "check" ELSE "for"
    /\ UNCHANGED <<dvars, ovars, peer, late, dockets, redis, last_pk, previous_last_pk, ds, kills, inserts,
                   loaded, stopped, done, wraps>>

\* # make and upload json; last_pk = d.pk
sweep_for ==
    /\ spc = "for"
    /\ last_pk' = PyInt(Head(chunk))
    /\ done' = Append(done, Head(chunk))
    /\ spc' = "set"
    /\ UNCHANGED <<dvars, ovars, peer, late, dockets, redis, previous_last_pk, ds, chunk, kills, inserts,
                   loaded, stopped, fetched, wraps>>

\* sweep_set writing the key only after the last row of the chunk.
sweep_set_AtChunkEnd ==
    /\ spc = "set"
    /\ redis' = IF Tail(chunk) = <<>> THEN {last_pk.v} ELSE redis
    /\ chunk' = Tail(chunk)
    /\ spc' = IF chunk' = <<>> THEN "check" ELSE "for"
    /\ UNCHANGED <<dvars, ovars, peer, late, dockets, last_pk, previous_last_pk, ds, kills, inserts, loaded,
                   stopped, done, fetched, wraps>>

\* r.set(redis_key, last_pk)
sweep_set ==
    /\ spc = "set"
    /\ redis' = {last_pk.v}
    /\ chunk' = Tail(chunk)
    /\ spc' = IF chunk' = <<>> THEN "check" ELSE "for"
    /\ UNCHANGED <<dvars, ovars, peer, late, dockets, last_pk, previous_last_pk, ds, kills, inserts, loaded,
                   stopped, done, fetched, wraps>>

\* if previous_last_pk == last_pk: last_pk = 0  else: previous_last_pk = last_pk
SamePk(prev, last) == prev = last

\* LoopAgain leaving the loop.
LoopAgain_Break == "returned"

\* while True: after the test the loop goes round to the next chunk query.
LoopAgain == "fetch"

sweep_check ==
    /\ spc = "check"
    /\ IF SamePk(previous_last_pk, last_pk)
       THEN /\ last_pk' = PyInt(0)
            /\ previous_last_pk' = previous_last_pk
            /\ done' = <<>>
            /\ wraps' = IF wraps < MaxWraps THEN wraps + 1 ELSE wraps
            /\ late' = [behind |-> {}, owed |-> late.behind]
       ELSE /\ previous_last_pk' = last_pk
            /\ UNCHANGED <<last_pk, done, wraps, late>>
    /\ spc' = LoopAgain
    /\ UNCHANGED <<dvars, ovars, peer, dockets, redis, ds, chunk, kills, inserts, loaded, stopped, fetched>>

\* OnStoreError with the exception swallowed: the loop goes on.
OnStoreError_Swallowed == "fetch"

\* An exception of the redis client is caught nowhere in upload_recap_data or
\* Command.handle: the process ends with it.
OnStoreError == "redis_error"

\* r.getset(redis_key, 0) raises: the key is neither read nor written.
upload_recap_data_redis_error ==
    /\ spc \in {"start", "stopped"}
    /\ spc' = OnStoreError
    /\ UNCHANGED <<dvars, ovars, peer, late, dockets, redis, last_pk, previous_last_pk, ds, chunk,
                   kills, inserts, loaded, stopped, done, fetched, wraps>>

\* r.set(redis_key, last_pk) raises: the key keeps what it held.
sweep_set_redis_error ==
    /\ spc = "set"
    /\ spc' = OnStoreError
    /\ UNCHANGED <<dvars, ovars, peer, late, dockets, redis, last_pk, previous_last_pk, ds, chunk,
                   kills, inserts, loaded, stopped, done, fetched, wraps>>

\* The hosting process is terminated from outside; its locals are gone.
sweep_killed ==
    /\ SweepRunning
    /\ kills < MaxKills
    /\ kills' = kills + 1
    /\ stopped' = redis
    /\ spc' = "stopped"
    /\ last_pk' = PyNone
    /\ previous_last_pk' = PyNone
    /\ ds' = 0
    /\ chunk' = <<>>
    /\ UNCHANGED <<dvars, ovars, peer, late, dockets, redis, inserts, loaded, done, fetched, wraps>>

\* Ingestion adds a docket while the sweep runs.
docket_inserted ==
    /\ SweepRunning
    /\ inserts < MaxInserts
    /\ \E pk \in DocketIds, src \in {"recap", "scraper"} :
        /\ dockets[pk] = "absent"
        /\ dockets' = [dockets EXCEPT ![pk] = src]
        /\ late' = IF src = "recap" /\ pk < last_pk.v
                   THEN [late EXCEPT !.behind = @ \cup {pk}]
                   ELSE late
    /\ inserts' = inserts + 1
    /\ UNCHANGED <<dvars, ovars, peer, redis, spc, last_pk, previous_last_pk, ds, chunk, kills, loaded,
                   stopped, done, fetched, wraps>>

\* ------------------------------- a second process run against the same key
\* The statements are those of upload_recap_data, on the locals in peer.
PeerRunning == peer.spc \in {"fetch", "for", "set", "check"}

peer_upload_recap_data ==
    /\ peer.spc = "start"
    /\ redis' = {0}
    /\ peer' = [peer EXCEPT !.spc = IF GetSet(redis) = PyNone THEN "raised" ELSE "fetch",
                            !.last_pk = GetSet(redis),
                            !.ds = GetSet(redis).v,
                            !.previous_last_pk = PyNone]
    /\ UNCHANGED <<dvars, ovars, late, dockets, spc, last_pk, previous_last_pk, ds, chunk, kills,
                   inserts, loaded, stopped, done, fetched, wraps>>

peer_fetch ==
    /\ peer.spc = "fetch"
    /\ LET rows == ChunkQuery(dockets, peer.ds, peer.last_pk)
       IN peer' = [peer EXCEPT !.chunk = rows,
                               !.spc = IF rows = <<>> THEN "check" ELSE "for"]
    /\ UNCHANGED <<dvars, ovars, late, dockets, redis, spc, last_pk, previous_last_pk, ds, chunk,
                   kills, inserts, loaded, stopped, done, fetched, wraps>>

peer_for ==
    /\ peer.spc = "for"
    /\ peer' = [peer EXCEPT !.last_pk = PyInt(Head(peer.chunk)),
                            !.done = Append(@, Head(peer.chunk)),
                            !.spc = "set"]
    /\ UNCHANGED <<dvars, ovars, late, dockets, redis, spc, last_pk, previous_last_pk, ds, chunk,
                   kills, inserts, loaded, stopped, done, fetched, wraps>>

peer_set ==
    /\ peer.spc = "set"
    /\ redis' = {peer.last_pk.v}
    /\ peer' = [peer EXCEPT !.chunk = Tail(@),
                            !.spc = IF Tail(peer.chunk) = <<>> THEN "check" ELSE "for"]
    /\ UNCHANGED <<dvars, ovars, late, dockets, spc, last_pk, previous_last_pk, ds, chunk, kills,
                   inserts, loaded, stopped, done, fetched, wraps>>

peer_check ==
    /\ peer.spc = "check"
    /\ peer' = IF SamePk(peer.previous_last_pk, peer.last_pk)
               THEN [peer EXCEPT !.last_pk = PyInt(0), !.done = <<>>, !.wrapped = TRUE,
                                 !.spc = LoopAgain]
               ELSE [peer EXCEPT !.previous_last_pk = peer.last_pk, !.spc = LoopAgain]
    /\ UNCHANGED <<dvars, ovars, late, dockets, redis, spc, last_pk, previous_last_pk, ds, chunk,
                   kills, inserts, loaded, stopped, done, fetched, wraps>>

\* Two processes about to start on the same key and the same table.
RaceStart ==
    /\ dockets \in [DocketIds -> {"absent", "recap"}]
    /\ redis \in {{n} : n \in 0..MaxDocket}
    /\ spc = "start"
    /\ last_pk = PyNone
    /\ previous_last_pk = PyNone
    /\ ds = 0
    /\ chunk = <<>>
    /\ kills = 0
    /\ inserts = 0
    /\ loaded = {}
    /\ stopped = {}
    /\ done = <<>>
    /\ fetched = <<>>
    /\ wraps = 0
    /\ late = NoneLate
    /\ peer = [PeerIdle EXCEPT !.spc = "start"]

RaceNext ==
    \/ upload_recap_data
    \/ sweep_fetch
    \/ sweep_for
    \/ sweep_set
    \/ sweep_check
    \/ peer_upload_recap_data
    \/ peer_fetch
    \/ peer_for
    \/ peer_set
    \/ peer_check

SweepStart ==
    /\ dockets \in [DocketIds -> {"absent", "recap", "scraper"}]
    /\ redis \in {{}} \cup {{n} : n \in 0..MaxDocket}
    /\ spc = "start"
    /\ last_pk = PyNone
    /\ previous_last_pk = PyNone
    /\ ds = 0
    /\ chunk = <<>>
    /\ kills = 0
    /\ inserts = 0
    /\ loaded = {}
    /\ stopped = {}
    /\ done = <<>>
    /\ fetched = <<>>
    /\ wraps = 0
    /\ late = NoneLate
    /\ peer = PeerIdle

SweepNext ==
    \/ upload_recap_data
    \/ sweep_fetch
    \/ sweep_for
    \/ sweep_set
    \/ sweep_check
    \/ upload_recap_data_redis_error
    \/ sweep_set_redis_error
    \/ sweep_killed
    \/ docket_inserted

\* No sweep process: the state the bounded actions run in.
SweepIdle ==
    /\ dockets = [pk \in DocketIds |-> "absent"]
    /\ redis = {}
    /\ spc = "idle"
    /\ last_pk = PyNone
    /\ previous_last_pk = PyNone
    /\ ds = 0
    /\ chunk = <<>>
    /\ kills = 0
    /\ inserts = 0
    /\ loaded = {}
    /\ stopped = {}
    /\ done = <<>>
    /\ fetched = <<>>
    /\ wraps = 0
    /\ late = NoneLate
    /\ peer = PeerIdle

\* No bounded action: the state the sweep runs in.
DispatchIdle ==
    /\ action = "upload-recap-data"
    /\ q = "batch1"
    /\ docs \in DocStores("fixed")
    /\ audio \in AudioStores("fixed")
    /\ phases = <<>>
    /\ pc = "done"
    /\ count = 0
    /\ rds = <<>>
    /\ i = 0
    /\ throttle = NewThrottle(q)
    /\ observed = {}
    /\ slept = FALSE
    /\ queue = <<>>
    /\ trace = <<>>
    /\ snap = [p \in Phases |-> <<>>]
    /\ touched = {}
    /\ envSteps = 0

DispatchNext ==
    \/ upload_pdfs_count
    \/ upload_pdfs_count_raises
    \/ upload_pdfs_iterate
    \/ upload_pdfs_iterate_raises
    \/ upload_pdfs_submit
    \/ upload_pdfs_submit_raises
    \/ upload_oral_arguments_query
    \/ upload_oral_arguments_query_raises
    \/ upload_oral_arguments_submit
    \/ upload_oral_arguments_submit_raises
    \/ maybe_wait
    \/ maybe_wait_poll
    \/ maybe_wait_poll_error
    \/ maybe_wait_sleep
    \/ worker_uploaded
    \/ worker_failed
    \/ ingested

\* ------------------------------------------------------ a run after a run
\* The command is started again with the same arguments after a run that
\* returned: a new process, whose locals start afresh; the tables are as the
\* run and the world outside left them. The histories turn to the new run and
\* keep what the run before submitted and the tables it read.
later_run ==
    /\ action \in BoundedActions
    /\ phases = <<>> /\ pc = "done"
    /\ prior.runs = 0
    /\ prior' = [runs |-> prior.runs + 1,
                 submitted |-> [p \in Phases |->
                     {trace[k].pk : k \in {j \in DOMAIN trace :
                         trace[j].ev = "submit" /\ trace[j].phase = p}}],
                 table |-> snap]
    /\ phases' = PhasesOf(action)
    /\ pc' = "start"
    /\ count' = 0
    /\ rds' = <<>>
    /\ i' = 0
    /\ throttle' = NewThrottle(q)
    /\ observed' = {}
    /\ slept' = FALSE
    /\ queue' = <<>>
    /\ trace' = <<>>
    /\ snap' = [p \in Phases |-> <<>>]
    /\ touched' = {}
    /\ UNCHANGED <<svars, fd, docs, audio, action, q, envSteps>>

\* The document dispatches on the default lane, run once and once again.
RerunStart ==
    /\ DispatchInit
    /\ action \in {"upload-pdfs-to-ia", "upload-non-free-pdfs-to-ia"}
    /\ q = DefaultQueue

RerunNext ==
    \/ upload_pdfs_count
    \/ upload_pdfs_count_raises
    \/ upload_pdfs_iterate
    \/ upload_pdfs_iterate_raises
    \/ upload_pdfs_submit
    \/ upload_pdfs_submit_raises
    \/ maybe_wait
    \/ maybe_wait_poll
    \/ maybe_wait_poll_error
    \/ maybe_wait_sleep
    \/ worker_uploaded
    \/ worker_failed
    \/ ingested
    \/ later_run

\* ------------------------------------------------------------- the command
\* Command.VALID_ACTIONS: the registered names.
VALID_ACTIONS == BoundedActions \cup {"upload-recap-data"}

\* The values of --action: the registered names, a registered name in another
\* case, and a name that is not registered.
Argv == VALID_ACTIONS \cup {"Upload-PDFs-To-IA", "upload-everything"}

\* s.lower()
Lower(s) == IF s = "Upload-PDFs-To-IA" THEN "upload-pdfs-to-ia" ELSE s

\* ParseAction without the membership test: the lookup alone.
ParseAction_NoCheck(s) ==
    IF s \notin VALID_ACTIONS THEN "KeyError" ELSE "handle"

\* Command.valid_actions, the type of --action: ArgumentTypeError (a usage
\* error) when s.lower() is not registered; otherwise VALID_ACTIONS[s], which
\* raises KeyError when s itself is not a key.
ParseAction(s) ==
    IF Lower(s) \notin VALID_ACTIONS THEN "usage_error"
    ELSE IF s \notin VALID_ACTIONS THEN "KeyError"
    ELSE "handle"

\* The arguments are parsed and, when they are accepted, Command.handle calls
\* options['action'](options).
valid_actions ==
    /\ pc = "parse"
    /\ CASE ParseAction(action) = "handle" /\ action \in BoundedActions ->
                /\ phases' = PhasesOf(action)
                /\ pc' = "start"
                /\ spc' = spc
          [] ParseAction(action) = "handle" /\ action \notin BoundedActions ->
                /\ phases' = phases
                /\ pc' = "done"
                /\ spc' = "start"
          [] OTHER ->
                /\ phases' = phases
                /\ pc' = ParseAction(action)
                /\ spc' = spc
    /\ UNCHANGED <<docs, audio, action, q, count, rds, i, throttle, observed, slept, queue,
                   trace, snap, touched, envSteps, dockets, redis, last_pk, previous_last_pk,
                   ds, chunk, kills, inserts, loaded, stopped, done, fetched, wraps, late,
                   peer, ovars>>

ReadsDocs(a) == a \in {"do-routing-uploads", "upload-pdfs-to-ia", "upload-non-free-pdfs-to-ia"}
ReadsAudio(a) == a \in {"do-routing-uploads", "upload-oral-arguments-to-ia"}

\* The command is started with some --action and --queue; the tables the
\* action named reads hold core rows, the key and the Docket table are there
\* for the sweep.
CommandInit ==
    /\ action \in Argv
    /\ q \in {QueueOption(given) : given \in QueueArgs}
    /\ envSteps \in {0, MaxEnvSteps}
    /\ action \notin {"upload-pdfs-to-ia", "upload-non-free-pdfs-to-ia",
                       "upload-oral-arguments-to-ia"} => envSteps = MaxEnvSteps
    /\ docs \in DocStores(IF ReadsDocs(action) THEN "core" ELSE "fixed")
    /\ audio \in AudioStores(IF ReadsAudio(action) THEN "core" ELSE "fixed")
    /\ phases = <<>>
    /\ pc = "parse"
    /\ count = 0
    /\ rds = <<>>
    /\ i = 0
    /\ throttle = NewThrottle(q)
    /\ observed = {}
    /\ slept = FALSE
    /\ queue = <<>>
    /\ trace = <<>>
    /\ snap = [p \in Phases |-> <<>>]
    /\ touched = {}
    /\ IF action = "upload-recap-data"
       THEN /\ dockets \in [DocketIds -> {"absent", "recap", "scraper"}]
            /\ redis \in {{}} \cup {{n} : n \in 0..MaxDocket}
       ELSE /\ dockets = [pk \in DocketIds |-> "recap"]
            /\ redis = {1}
    /\ spc = "idle"
    /\ last_pk = PyNone
    /\ previous_last_pk = PyNone
    /\ ds = 0
    /\ chunk = <<>>
    /\ kills = 0
    /\ inserts = 0
    /\ loaded = {}
    /\ stopped = {}
    /\ done = <<>>
    /\ fetched = <<>>
    /\ wraps = 0
    /\ late = NoneLate
    /\ peer = PeerIdle
    /\ OthersIdle

CommandNext ==
    \/ valid_actions
    \/ DispatchNext
    \/ SweepNext

\* ============================================== FinancialDisclosure.save
\* Python truth of self.pk: None and 0 are false.
Truthy(pk) == pk # {} /\ pk # {0}

\* if not self.pk:, evaluated after super().save() has run
ThumbnailDue(before, after) == ~Truthy(after)

\* super(FinancialDisclosure, self).save(): an instance without a pk is
\* inserted under the next value of the sequence (the insert fails when a row
\* with an explicit pk already has that value); an instance with a pk is
\* updated when its row exists and inserted under its pk otherwise.
ModelSave(self) ==
    IF self = {}
    THEN IF fd.seq \in fd.table
         THEN [ok |-> FALSE, pk |-> self, table |-> fd.table, seq |-> fd.seq + 1]
         ELSE [ok |-> TRUE, pk |-> {fd.seq}, table |-> fd.table \cup {fd.seq},
               seq |-> fd.seq + 1]
    ELSE [ok |-> TRUE, pk |-> self, table |-> fd.table \cup self, seq |-> fd.seq]

\* def save(self, *args, **kwargs): super().save(...), then
\* if not self.pk: make_financial_disclosure_thumbnail_from_pdf.delay(self.pk)
FinancialDisclosure_save ==
    /\ fd.saves < MaxSaves
    /\ \E o \in 1..NumFd :
        LET self == fd.objs[o]
            r == ModelSave(self)
        IN fd' = [objs |-> [fd.objs EXCEPT ![o] = r.pk],
                  table |-> r.table,
                  seq |-> r.seq,
                  tasks |-> IF r.ok /\ ThumbnailDue(self, r.pk)
                            THEN Append(fd.tasks, r.pk)
                            ELSE fd.tasks,
                  saves |-> fd.saves + 1,
                  last |-> [obj |-> o, new |-> self \cap fd.table = {}, pk |-> r.pk,
                            saved |-> r.ok]]
    /\ UNCHANGED <<dvars, svars, prior>>

\* Instances built in memory, without a pk or with an explicit one; nothing
\* saved yet.
SaveStart ==
    /\ fd \in {[NoDisclosures EXCEPT !.objs = ob] : ob \in [1..NumFd -> FdPks]}
    /\ prior = NoPrior

SaveNext == FinancialDisclosure_save

\* ----------------------------------------------------------- specification
Init == DispatchInit /\ SweepIdle /\ OthersIdle

Next == DispatchNext

Spec == Init /\ [][Next]_vars

SweepInit == SweepStart /\ DispatchIdle /\ OthersIdle

SweepSpec == SweepInit /\ [][SweepNext]_vars

\* The command from its arguments on.
CommandSpec == CommandInit /\ [][CommandNext]_vars

\* Two sweep processes on one key.
RaceInit == RaceStart /\ DispatchIdle /\ OthersIdle

RaceSpec == RaceInit /\ [][RaceNext]_vars

\* A bounded document dispatch run again after it returned.
RerunInit == RerunStart /\ SweepIdle /\ OthersIdle

RerunSpec == RerunInit /\ [][RerunNext]_vars

\* Saves of FinancialDisclosure instances.
SaveInit == SaveStart /\ DispatchIdle /\ SweepIdle

SaveSpec == SaveInit /\ [][SaveNext]_vars

\* The sweep under the scheduling of one running thread: a statement of the
\* loop that can be executed is executed.
LiveSweepSpec ==
    /\ SweepSpec
    /\ WF_vars(sweep_fetch)
    /\ WF_vars(sweep_for)
    /\ WF_vars(sweep_set)
    /\ WF_vars(sweep_check)

\* ================================================================== claims
\* The submissions of a phase, as the set of pks and in order.
IsSubmit(e) == e.ev = "submit"
SubmittedPks(ph) ==
    {trace[k].pk : k \in {j \in DOMAIN trace : trace[j].ev = "submit" /\ trace[j].phase = ph}}
Finished(ph) == snap[ph] # <<>> /\ (phases = <<>> \/ Head(phases) # ph)
TableRead(ph) == snap[ph][1]

\* The dispatch predicate as the data model states it.
UnderThreeFailures(r) ==
    r.ia_upload_failure_count = {} \/ \A n \in r.ia_upload_failure_count : n < 3
EligibleDocument(r) ==
    /\ r.is_available
    /\ r.filepath_local # ""
    /\ r.filepath_ia = ""
    /\ UnderThreeFailures(r)
EligibleAudio(r) ==
    /\ r.is_available
    /\ r.local_path_mp3 # ""
    /\ r.filepath_ia = ""
    /\ UnderThreeFailures(r)

\* C1: when the free-document dispatch has finished, a document's pk was
\* submitted iff, in the table as the query read it, the document is available,
\* has a local copy, has no archive path, has fewer than 3 failures (or none
\* recorded) and is free on public access.
C1_FreeDispatchEligibility ==
    Finished("free") =>
        \A pk \in DocIds :
            pk \in SubmittedPks("free") <=>
                (EligibleDocument(TableRead("free")[pk])
                    /\ TableRead("free")[pk].is_free_on_pacer = {TRUE})

\* A finished free dispatch that submitted one document and left out one that
\* differs from it only in having reached 3 failures.
C1_Witness ==
    /\ action = "upload-pdfs-to-ia"
    /\ Finished("free")
    /\ \E a, b \in DocIds :
        /\ a \in SubmittedPks("free")
        /\ b \notin SubmittedPks("free")
        /\ TableRead("free")[b] =
              [TableRead("free")[a] EXCEPT !.ia_upload_failure_count = {FailureLimit}]

\* C2: when the non-free-document dispatch has finished, a document's pk was
\* submitted iff it satisfies the base predicate and its free flag is false or
\* NULL; a document whose flag is true was not submitted.
C2_NonFreeDispatchEligibility ==
    Finished("nonfree") =>
        \A pk \in DocIds :
            /\ pk \in SubmittedPks("nonfree") <=>
                  (EligibleDocument(TableRead("nonfree")[pk])
                      /\ TableRead("nonfree")[pk].is_free_on_pacer \in {{FALSE}, {}})
            /\ TableRead("nonfree")[pk].is_free_on_pacer = {TRUE}
                  => pk \notin SubmittedPks("nonfree")

\* A finished non-free dispatch that submitted a document with a NULL flag and
\* left out an otherwise eligible document whose flag is true.
C2_Witness ==
    /\ action = "upload-non-free-pdfs-to-ia"
    /\ Finished("nonfree")
    /\ \E a, b \in DocIds :
        /\ a \in SubmittedPks("nonfree")
        /\ TableRead("nonfree")[a].is_free_on_pacer = {}
        /\ b \notin SubmittedPks("nonfree")
        /\ EligibleDocument(TableRead("nonfree")[b])
        /\ TableRead("nonfree")[b].is_free_on_pacer = {TRUE}

\* C3: when the oral-argument dispatch has finished, an audio file's pk was
\* submitted iff the file is available, has a local copy, has no archive path
\* and has fewer than 3 failures (or none recorded).
C3_AudioDispatchEligibility ==
    Finished("audio") =>
        \A pk \in AudioIds :
            pk \in SubmittedPks("audio") <=> EligibleAudio(TableRead("audio")[pk])

\* The pks a phase submitted, in the order of submission.
SubmitsOf(ph) == SelectSeq(trace, LAMBDA e : e.ev = "submit" /\ e.phase = ph)
SubmittedSeq(ph) == LET subs == SubmitsOf(ph) IN [k \in DOMAIN subs |-> subs[k].pk]
StrictlyAscending(s) == \A a, b \in DOMAIN s : a < b => s[a] < s[b]
NoRepeats(s) == \A a, b \in DOMAIN s : a # b => s[a] # s[b]
InLoop == Running /\ pc \in {"wait", "poll", "sleep", "submit"}

LoggedTotal(ph) ==
    LET s == SelectSeq(trace, LAMBDA e : e.ev = "sending" /\ e.phase = ph)
    IN s[1].n

\* The rows of the table read that the phase's dispatch predicate selects: the
\* documents by the predicate of the data model and the free flag; the audio
\* files by the same predicate without availability, which the oral-argument
\* selector does not consult (see C3).
SelectedRows(ph) ==
    CASE ph = "free" ->
            {pk \in DocIds : /\ EligibleDocument(TableRead(ph)[pk])
                             /\ TableRead(ph)[pk].is_free_on_pacer = {TRUE}}
      [] ph = "nonfree" ->
            {pk \in DocIds : /\ EligibleDocument(TableRead(ph)[pk])
                             /\ TableRead(ph)[pk].is_free_on_pacer # {TRUE}}
      [] ph = "audio" ->
            {pk \in AudioIds : /\ TableRead(ph)[pk].local_path_mp3 # ""
                               /\ TableRead(ph)[pk].filepath_ia = ""
                               /\ UnderThreeFailures(TableRead(ph)[pk])}

CallsAndSubmits == SelectSeq(trace, LAMBDA e : e.ev \in {"waited", "submit"})

\* C6: the completed maybe_wait calls and the submissions alternate, a completed
\* call first, and each submission goes to the lane the call before it watched;
\* while a call is under way every earlier call has had its submission.
C6_WaitBeforeEachSubmit ==
    LET cs == CallsAndSubmits
    IN  /\ \A k \in DOMAIN cs :
              /\ cs[k].ev = IF k % 2 = 1 THEN "waited" ELSE "submit"
              /\ k % 2 = 0 =>
                    /\ cs[k].lane = cs[k - 1].lane
                    /\ cs[k].phase = cs[k - 1].phase
        /\ Running /\ pc \in {"wait", "poll", "sleep"} => Len(cs) % 2 = 0
        /\ Len(queue) = Len(SelectSeq(trace, IsSubmit))

\* Two submissions made, the second after a call that slept.
C6_Witness ==
    /\ Len(queue) >= 2
    /\ Len(CallsAndSubmits) >= 4
    /\ pc = "submit" /\ slept

Over(o) == o # {} /\ \A d \in o : d > Ceiling
Under(o) == o # {} /\ \A d \in o : d <= Ceiling

\* C7: a maybe_wait call that has read a depth above the ceiling sleeps and reads
\* again, and nothing is submitted until a reading is at or below the ceiling;
\* a call that reads a depth at or below the ceiling returns at once.
C7_ThrottleState ==
    /\ pc = "sleep" => Over(observed)
    /\ pc = "submit" /\ observed # {} => Under(observed)
    /\ Under(observed) => pc \notin {"poll", "sleep"}

\* C7, step part: a reading above the ceiling leads to a sleep, a sleep leads
\* to another reading, and no submission is made while the call polls or sleeps.
C7_ThrottleStep ==
    /\ pc = "poll" /\ pc' # pc /\ observed' # {} =>
          /\ Over(observed') <=> pc' = "sleep"
          /\ Under(observed') <=> pc' = "submit"
          /\ slept' = slept
    /\ pc = "sleep" /\ pc' # pc => pc' = "poll" /\ observed' = observed
    /\ pc \in {"poll", "sleep"} => queue' = queue

\* C7: maybe_wait holds the caller while the observed depth is above the
\* ceiling and returns without sleeping when it is at or below the ceiling.
C7_ThrottleCeiling == [](C7_ThrottleState) /\ [][C7_ThrottleStep]_vars

\* A call that read a depth above the ceiling, slept, and returned on a later
\* reading at the ceiling.
C7_Witness ==
    /\ pc = "submit"
    /\ slept
    /\ observed = {Ceiling}

\* ------------------------------------------------------------ the sweep
LastFetch == fetched[1]
ValueOf(key) == CHOOSE n \in key : TRUE

\* C8 (as stated): after a chunk query that returned no row, last_pk is 0 and
\* the next chunk query asks for pk > 0, whatever the key held at the start and
\* also when the empty query is the first of the process.
C8_WrapOnEmptyFetch ==
    /\ spc = "fetch" /\ fetched # <<>> /\ LastFetch.rows = <<>> => last_pk.v = 0
    /\ Len(fetched) = 2 /\ fetched[2].rows = <<>> => fetched[1].gt = 0

\* C9: a process started after a termination reads the value the key held when
\* the earlier process stopped, its first chunk query asks for pk above that
\* value, and until it resets last_pk it handles no docket at or below it.
C9_ResumeAfterRestart ==
    kills >= 1 /\ SweepRunning =>
        /\ loaded = stopped
        /\ \A k \in DOMAIN fetched :
              /\ fetched[k].gt >= ValueOf(stopped)
              /\ fetched[k].first =>
                    /\ fetched[k].cursor = ValueOf(stopped)
                    /\ fetched[k].gt = ValueOf(stopped)
        /\ wraps = 0 => \A k \in DOMAIN done : done[k] > ValueOf(stopped)

\* A process that was stopped with the key at n > 0, started again, and handled
\* a docket above n while a docket at or below n exists.
C9_Witness ==
    /\ kills = 1 /\ SweepRunning
    /\ stopped # {} /\ ValueOf(stopped) > 0
    /\ wraps = 0 /\ done # <<>>
    /\ \E pk \in DocketIds : dockets[pk] = "recap" /\ pk <= ValueOf(stopped)

\* The dockets handled and persisted since last_pk was last reset.
FullyDone == IF spc = "set" THEN SubSeq(done, 1, Len(done) - 1) ELSE done
AtSweepBoundary == wraps > 0 /\ FullyDone = <<>>

\* C10 (as stated): while the sweep runs and is not at a sweep boundary, the key
\* holds the pk of the last docket handled in the current sweep, or the value
\* read at the start when none has been handled yet.
C10_StoreHoldsPosition ==
    SweepRunning /\ ~AtSweepBoundary =>
        redis = {IF FullyDone = <<>> THEN ValueOf(loaded)
                 ELSE FullyDone[Len(FullyDone)]}

\* The rows of the chunk under way that are handled and written to the key.
Last(s) == s[Len(s)]

\* C11, state part: while the for loop runs, last_pk is the pk of the row just
\* handled, and the key holds the pk of the last row handled and persisted.
C11_PersistedState ==
    /\ spc = "set" => last_pk = PyInt(Last(done))
    /\ SweepRunning /\ FullyDone # <<>> => redis = {Last(FullyDone)}

\* C11, step part: a row is handled only when the row before it has been written
\* to the key, and a termination leaves the key as it was.
C11_PersistedStep ==
    /\ spc = "for" /\ spc' = "set" /\ done # <<>> => redis = {Last(done)}
    /\ SweepRunning /\ spc' = "stopped" =>
          /\ redis' = redis
          /\ stopped' = redis
          /\ FullyDone # <<>> => stopped' = {Last(FullyDone)}

\* C11: every row of a chunk is written to the key before the next row is
\* handled, so a termination in the middle of a chunk leaves the key at the
\* last row handled and persisted.
C11_PerRecordPersistence == [](C11_PersistedState) /\ [][C11_PersistedStep]_vars

\* A process terminated in the middle of a chunk: the key holds a row of the
\* chunk that is neither its last row nor the value the chunk query started from.
C11_Witness ==
    /\ spc = "stopped"
    /\ fetched # <<>>
    /\ Len(LastFetch.rows) >= 2
    /\ stopped = {LastFetch.rows[1]}
    /\ stopped # {Last(LastFetch.rows)}
    /\ stopped # {LastFetch.cursor}

\* last_pk has just been reset: the int 0 is assigned nowhere else.
JustReset == spc = "fetch" /\ last_pk = PyInt(0)

\* C12 (as stated): when last_pk has been reset to 0, the key holds 0 before
\* the next chunk query runs.
C12_ResetPersisted == JustReset => redis = {0}

\* C13 (as stated): last_pk is reset to 0 only after a chunk query that
\* returned no row.
C13_ResetOnlyAfterEmptyFetch == JustReset => LastFetch.rows = <<>>

\* The dockets of a recognised source, ascending.
Corpus == Ascending({pk \in DocketIds : dockets[pk] = "recap"})
IsPrefix(s, t) == Len(s) <= Len(t) /\ s = SubSeq(t, 1, Len(s))
StaticRun == spc # "start" /\ kills = 0 /\ inserts = 0

\* C14 (as stated): a process started with the key absent, over a corpus that
\* does not change, starts its chunk queries from 0, handles the corpus in
\* ascending order with the key following it, and resets last_pk only when it
\* has handled the whole corpus and a chunk query came back empty.
C14_EndToEndFromEmptyStore ==
    StaticRun /\ loaded = {} =>
        /\ spc # "raised"
        /\ IsPrefix(done, Corpus)
        /\ FullyDone # <<>> => redis = {Last(FullyDone)}
        /\ JustReset => LastFetch.rows = <<>> /\ LastFetch.cursor = Last(<<0>> \o Corpus)

\* C15 (as stated): a process started with the key absent takes last_pk to be
\* 0, does not fail, and its first chunk query asks for pk > 0.
C15_AbsentKeyDefaultsToZero ==
    spc # "start" /\ kills = 0 /\ loaded = {} =>
        /\ spc # "raised"
        /\ fetched = <<>> => last_pk.v = 0
        /\ \A k \in DOMAIN fetched : fetched[k].first => fetched[k].gt = 0

\* C16: the dockets one process handles between two resets of last_pk (or from
\* its start to its first reset) have strictly ascending pks, within a chunk
\* and from one chunk to the next.
C16_SweepAscending == StrictlyAscending(done)

\* A sweep that has handled more dockets than one chunk holds.
C16_Witness ==
    /\ SweepRunning
    /\ Len(done) > chunk_size
    /\ wraps > 0

\* ------------------------------------------------- failures and progress
\* C17 (as stated): a submission that fails does not end the run: after the
\* failure of one row the command is still going, or goes on to its end.
C17_SubmitFailureDoesNotAbort ==
    \A k \in DOMAIN trace : trace[k].ev = "raised" => pc # "raised"

\* C18: a depth query that fails is logged and the maybe_wait call completes as
\* if the depth were under the ceiling: the caller is at the submission next,
\* and only a failed submission or a failed query, never the throttle, ends a
\* run.
C18_ThrottleFailOpen ==
    /\ \A k \in DOMAIN trace :
          trace[k].ev = "introspection_error" =>
              /\ k + 1 \in DOMAIN trace
              /\ trace[k + 1].ev = "waited"
              /\ trace[k + 1].lane = trace[k].lane
              /\ k + 2 \in DOMAIN trace => trace[k + 2].ev \in {"sent", "submit", "raised"}
    /\ trace # <<>> /\ Last(trace).ev = "waited" => Running /\ pc = "submit"
    /\ pc = "raised" => Last(trace).ev \in {"raised", "query_error"}

\* A depth query failed and the submission after the call was made.
C18_Witness ==
    \E k \in DOMAIN trace :
        /\ trace[k].ev = "introspection_error"
        /\ \E j \in DOMAIN trace :
              /\ j > k + 1
              /\ trace[j].ev = "submit"
              /\ \A m \in (k + 2)..(j - 1) : trace[m].ev = "sent"

\* The progress lines of a phase, and the submissions made before an event.
SentLines(ph) == SelectSeq(trace, LAMBDA e : e.ev = "sent" /\ e.phase = ph)
SentAt(ph) == LET ls == SentLines(ph) IN {ls[k].n : k \in DOMAIN ls}
SubmitsBefore(k) ==
    Cardinality({j \in 1..(k - 1) : trace[j].ev = "submit" /\ trace[j].phase = trace[k].phase})
LinesReportWhatWasSent ==
    \A k \in DOMAIN trace :
        trace[k].ev = "sent" =>
            /\ SubmitsBefore(k) = trace[k].n
            /\ trace[k].total = LoggedTotal(trace[k].phase)

\* C19 (as stated): a finished phase of N submissions wrote one progress line
\* for every multiple X of LogEvery with LogEvery <= X <= N, and each line was
\* written when exactly X submissions had been made.
C19_ProgressAtEveryMultiple ==
    /\ \A ph \in Phases :
          Finished(ph) =>
              LET N == Len(SubmittedSeq(ph))
              IN /\ SentAt(ph) = {X \in 1..N : X % LogEvery = 0}
                 /\ Len(SentLines(ph)) = N \div LogEvery
    /\ LinesReportWhatWasSent

\* C19 (amended): the line for X is written at the top of the round that
\* submits row X + 1, so the lines are those for the multiples X of LogEvery
\* with LogEvery <= X < N; each is written when exactly X submissions have
\* been made.
C19_ProgressBeforeEachMultiple ==
    /\ \A ph \in Phases :
          Finished(ph) =>
              LET N == Len(SubmittedSeq(ph))
              IN /\ SentAt(ph) = {X \in 1..(N - 1) : X % LogEvery = 0}
                 /\ Len(SentLines(ph)) = IF N = 0 THEN 0 ELSE (N - 1) \div LogEvery
    /\ LinesReportWhatWasSent

\* A finished phase whose number of submissions is a multiple of LogEvery: it
\* wrote progress lines, and none for its last submission.
C19_Witness ==
    \E ph \in Phases :
        /\ Finished(ph)
        /\ Len(SubmittedSeq(ph)) = NumDocs
        /\ NumDocs % LogEvery = 0
        /\ SentAt(ph) # {}
        /\ NumDocs \notin SentAt(ph)

\* The order of the routine.
Rank(ph) == CASE ph = "free" -> 1 [] ph = "nonfree" -> 2 [] ph = "audio" -> 3
PrevPhase(ph) == IF ph = "audio" THEN "nonfree" ELSE "free"

\* C20: in the routine every event of the free dispatch precedes every event of
\* the non-free dispatch, which precedes every event of the oral-argument
\* dispatch, and a dispatch starts only when the one before it has submitted
\* every row of its result.
C20_PhasesInSequence ==
    action = "do-routing-uploads" =>
        /\ \A a \in 1..(Len(trace) - 1) :
              Rank(trace[a].phase) <= Rank(trace[a + 1].phase)
        /\ Running /\ pc \in {"start", "iterate"} /\ phase # "free" =>
              /\ Finished(PrevPhase(phase))
              /\ SubmittedSeq(PrevPhase(phase)) = rds
        /\ \A ph \in Phases \ {"free"} : snap[ph] # <<>> => Finished(PrevPhase(ph))

\* The routine ran to its end and each of its three dispatches submitted a row.
C20_Witness ==
    /\ action = "do-routing-uploads"
    /\ pc = "done"
    /\ \A ph \in Phases : SubmittedSeq(ph) # <<>>

\* ------------------------------------------------ the loop and its stores
Halted == spc \in {"stopped", "redis_error"}

\* C21: the loop has no way out: a chunk query that is due is made, and from
\* every other statement of the loop the process comes to the next chunk
\* query, unless it is terminated from outside or a store call raises.
C21_LoopNeverReturns ==
    /\ (spc = "fetch") ~> (spc \in {"for", "check"} \/ Halted)
    /\ (spc \in {"for", "set", "check"}) ~> (spc = "fetch" \/ Halted)

\* The loop has gone round over an empty corpus and is at a chunk query again.
C21_Witness ==
    /\ spc = "fetch"
    /\ wraps = MaxWraps
    /\ Corpus = <<>>
    /\ Len(fetched) = 2

\* C22, step part: a redis call that raises ends the process where it is, with
\* the key and the dockets handled as they were, and a process ended so does
\* nothing more.
C22_StoreErrorStep ==
    /\ upload_recap_data_redis_error \/ sweep_set_redis_error =>
          /\ spc' = "redis_error"
          /\ redis' = redis
          /\ done' = done
    /\ spc = "redis_error" =>
          UNCHANGED <<spc, redis, done, fetched, last_pk, previous_last_pk, wraps>>

\* C22: an error of the cursor store, on the initial getset or on a set, ends
\* the sweep: no docket is handled and no chunk query is made after it.
C22_StoreErrorHalts == [][C22_StoreErrorStep]_vars

\* A set that raised in the middle of a chunk: the process has ended with a
\* row of the chunk unvisited, and the key does not hold the row just handled.
C22_Witness ==
    /\ spc = "redis_error"
    /\ done # <<>>
    /\ Len(chunk) >= 2
    /\ redis # {Last(done)}

\* C23: a query of the data store that raises ends the run there: nothing is
\* logged, counted or submitted after the error, the query is not tried again,
\* and in the routine the dispatch functions after the failing one do not start.
C23_QueryErrorEndsRun ==
    \A k \in DOMAIN trace :
        trace[k].ev = "query_error" =>
            /\ k = Len(trace)
            /\ pc = "raised"
            /\ phases # <<>> /\ Head(phases) = trace[k].phase
            /\ Len(queue) = Len(SelectSeq(trace, IsSubmit))
            /\ \A ph \in Phases : Rank(ph) > Rank(trace[k].phase) => snap[ph] = <<>>

\* The routine submitted a free document and ended on a failing query of the
\* non-free dispatch; the oral arguments were never queried.
C23_Witness ==
    /\ action = "do-routing-uploads"
    /\ pc = "raised"
    /\ Last(trace).ev = "query_error"
    /\ Last(trace).phase = "nonfree"
    /\ SubmittedSeq("free") # <<>>
    /\ snap["audio"] = <<>>

\* ------------------------------------------------------------ the command
\* C24, step part: a step that is not one of the world outside (the upload
\* workers, ingestion) leaves every row of the three tables as it was.
C24_Frame ==
    envSteps' = envSteps /\ inserts' = inserts =>
        /\ docs' = docs
        /\ audio' = audio
        /\ dockets' = dockets

\* C24: no bounded dispatch and no sweep changes or deletes a row; what the
\* command writes is the queue and the key.
C24_RecordsReadOnly == [][C24_Frame]_vars

\* A free dispatch that ran to its end and submitted rows; the table is as the
\* query read it.
C24_Witness ==
    /\ Finished("free")
    /\ SubmittedSeq("free") # <<>>
    /\ touched = {}
    /\ docs = TableRead("free")

\* Nothing has been queried, submitted or read from the key.
NoWorkBegun ==
    /\ phases = <<>>
    /\ trace = <<>>
    /\ queue = <<>>
    /\ \A ph \in Phases : snap[ph] = <<>>
    /\ spc = "idle"
    /\ redis = {1}
    /\ fetched = <<>>
    /\ done = <<>>

\* C25: a value of --action whose lowercase form is not registered ends in the
\* usage error of the argument parser, and for a value that is not a registered
\* name no handler is called: no query, no submission, no access to the key.
C25_UnknownActionRejected ==
    /\ Lower(action) \notin VALID_ACTIONS /\ pc # "parse" => pc = "usage_error"
    /\ action \notin VALID_ACTIONS =>
          /\ pc \in {"parse", "usage_error", "KeyError"}
          /\ NoWorkBegun

\* The command was given a name that is not registered and has ended in the
\* usage error with nothing done.
C25_Witness ==
    /\ action = "upload-everything"
    /\ pc = "usage_error"
    /\ NoWorkBegun

\* ---------------------------------------------------------- two processes
\* The dockets a process has handled and written to the key since it last
\* reset its last_pk.
PeerFullyDone ==
    IF peer.spc = "set" THEN SubSeq(peer.done, 1, Len(peer.done) - 1) ELSE peer.done
Persisted ==
    {FullyDone[k] : k \in DOMAIN FullyDone} \cup {PeerFullyDone[k] : k \in DOMAIN PeerFullyDone}

\* The key has moved back: a docket some process handled and wrote to the key in
\* its current sweep lies above what the key holds now.
KeyBehind == \E x \in Persisted : x > ValueOf(redis)

\* C26: as long as one process alone has written, the key is never behind what
\* was written; the key falls behind only by the writes of a second process,
\* which nothing in upload_recap_data holds back.
C26_BehindOnlyWithTwoWriters == peer.spc = "start" => ~KeyBehind

\* Two processes, neither of which has reset its last_pk: a set of one has
\* moved the key below a docket the other had written.
C26_Witness ==
    /\ KeyBehind
    /\ wraps = 0
    /\ ~peer.wrapped
    /\ redis # {0}
    /\ SweepRunning /\ PeerRunning

\* ------------------------------------------------------ sweeps after a reset
\* The step of the end-of-loop test that resets last_pk: the sweep under way
\* ends with the dockets in done.
ResetStep == spc = "check" /\ SamePk(previous_last_pk, last_pk) /\ spc' = "fetch"
Handled == {done[k] : k \in DOMAIN done}

\* C27 (as stated): over a corpus that does not change, every sweep that ends
\* after the first reset has handled the whole corpus, whatever the key held
\* when the process started.
C27_FullPass ==
    ResetStep /\ wraps >= 1 /\ inserts = 0 => done = Corpus

\* C27 (as stated), over every step of the sweep.
C27_FullPassAfterWrap == [][C27_FullPass]_vars

\* C28 (as stated): a chunk query returns at most chunk_size rows, and they are
\* the dockets of a recognised source with the smallest pks above last_pk.
C28_FetchSmallestAboveCursor ==
    inserts = 0 =>
        \A k \in DOMAIN fetched :
            /\ Len(fetched[k].rows) <= chunk_size
            /\ \A j \in DOMAIN fetched[k].rows : dockets[fetched[k].rows[j]] = "recap"
            /\ fetched[k].rows =
                  Limit(Ascending({pk \in DocketIds :
                                      dockets[pk] = "recap" /\ pk > fetched[k].cursor}),
                        chunk_size)

\* C29 (as stated), state part: a docket inserted behind last_pk is not
\* handled in the sweep under way.
C29_NotInThisSweep == late.behind \cap Handled = {}

\* C29 (as stated), step part: a sweep that ends has handled the dockets that
\* were inserted behind last_pk during the sweep before it.
C29_CaughtByNextSweep == ResetStep => late.owed \subseteq Handled

\* C29 (as stated): a docket of a recognised source inserted behind last_pk is
\* left out of the sweep under way and handled by the next one, whatever the
\* key held when the process started.
C29_SkippedUntilNextSweep == [](C29_NotInThisSweep) /\ [][C29_CaughtByNextSweep]_vars

\* C30 (as stated): a write to the key stores a value above the one it held,
\* unless it is the write of 0 by the reset that starts a new sweep.
C30_StoredValueIncreases ==
    redis' # redis /\ redis # {} =>
        \/ ValueOf(redis') > ValueOf(redis)
        \/ ResetStep /\ redis' = {0}

\* C30 (as stated), over every write to the key.
C30_WritesIncreasing == [][C30_StoredValueIncreases]_vars

\* ------------------------------------------------- free and non-free modes
\* C31: over the table a dispatch starts from, the free and the non-free
\* selection are disjoint and together they are the documents of the base
\* query, whatever the nullable free flag holds; in
\* a routine run over one store state the pks the two dispatches submitted are
\* disjoint and together they are the base query's documents.
C31_FreeNonFreePartition ==
    /\ pc = "start" =>
          /\ DocQuery(docs, FALSE) \cap DocQuery(docs, TRUE) = {}
          /\ DocQuery(docs, FALSE) \cup DocQuery(docs, TRUE) = BaseDocQuery(docs)
    /\ action = "do-routing-uploads" /\ Finished("nonfree") =>
          LET free == SubmittedPks("free")
              nonfree == SubmittedPks("nonfree")
          IN  /\ TableRead("free") = TableRead("nonfree")
              /\ free \cap nonfree = {}
              /\ free \cup nonfree = BaseDocQuery(TableRead("free"))

\* A routine run whose free dispatch submitted a document and whose non-free
\* dispatch submitted one with the flag unset (NULL).
C31_Witness ==
    /\ action = "do-routing-uploads"
    /\ Finished("nonfree")
    /\ SubmittedPks("free") # {}
    /\ \E pk \in SubmittedPks("nonfree") : TableRead("nonfree")[pk].is_free_on_pacer = {}

\* ------------------------------------------------------------------- lanes
\* C32: every task the command hands to the broker is addressed to the lane
\* options['queue'] holds (the value of --queue, 'batch1' when it is absent),
\* in all three dispatches of the routine, and every call of the throttle
\* before a submission watches that lane.
C32_LaneConsistency ==
    /\ q \in Lanes
    /\ QueueOption({}) = "batch1"
    /\ \A k \in DOMAIN queue : queue[k].queue = q
    /\ \A k \in DOMAIN trace :
          trace[k].ev \in {"waited", "submit", "introspection_error"} => trace[k].lane = q
    /\ Running /\ pc \in {"wait", "poll", "sleep", "submit"} => throttle.queue_name = q

\* A routine run on a lane other than the default whose three dispatches each
\* handed a task to the broker.
C32_Witness ==
    /\ action = "do-routing-uploads"
    /\ q # DefaultQueue
    /\ pc = "done"
    /\ \A ph \in Phases : SubmittedPks(ph) # {}
    /\ {queue[k].task : k \in DOMAIN queue} = {"upload_pdf_to_ia", "upload_audio_to_ia"}

\* ------------------------------------------------------------ action names
\* C35 (as stated): a value of --action is rejected with a usage error iff its
\* lowercase form is not a registered name, and every other value, whatever
\* its case, resolves to the handler registered under its lowercase form
\* without an error.
C35_CaseInsensitiveResolution ==
    pc # "parse" =>
        /\ pc = "usage_error" <=> Lower(action) \notin VALID_ACTIONS
        /\ pc # "KeyError"
        /\ Lower(action) \in BoundedActions /\ pc = "start" /\ trace = <<>> =>
              phases = PhasesOf(Lower(action))

\* -------------------------------------------------- the total logged up front
\* C34 (as stated): in a document dispatch the total logged up front bounds
\* the run: the submissions never outnumber it and every progress line reports
\* X <= total, also when rows change between the count and the iteration.
C34_TotalBoundsRun ==
    \A ph \in {"free", "nonfree"} :
        snap[ph] # <<>> =>
            /\ Len(SubmittedSeq(ph)) <= LoggedTotal(ph)
            /\ \A k \in DOMAIN trace :
                  trace[k].ev = "sent" /\ trace[k].phase = ph => trace[k].n <= trace[k].total

\* ------------------------------------------------- FinancialDisclosure.save
\* C36 (as stated), one save: the save of an instance that had no row enqueues
\* one thumbnail task under the pk the save gave it, the save of a stored
\* instance enqueues none.
C36_SaveStep ==
    fd'.saves = fd.saves + 1 /\ fd'.last.saved =>
        IF fd'.last.new
        THEN fd'.tasks = Append(fd.tasks, fd'.last.pk) /\ fd'.last.pk # {}
        ELSE fd'.tasks = fd.tasks

\* C36 (as stated): over every save, and no task ever carries an unset pk.
C36_ThumbnailOncePerNewDisclosure ==
    [][C36_SaveStep]_vars /\ [](\A k \in DOMAIN fd.tasks : fd.tasks[k] # {})

\* ------------------------------------------------------------- re-dispatch
\* The documents of the phase's mode that the dispatch predicate selects in
\* the table the run read.
StillEligible(ph) ==
    {pk \in DocIds : /\ EligibleDocument(TableRead(ph)[pk])
                     /\ (ph = "free") = (TableRead(ph)[pk].is_free_on_pacer = {TRUE})}

\* What takes a document out of the dispatch for good or until it is ingested
\* again: an archive path, no availability, no local copy, three failures.
Settled(r) ==
    \/ r.filepath_ia # ""
    \/ ~r.is_available
    \/ r.filepath_local = ""
    \/ r.ia_upload_failure_count = {FailureLimit}

\* C33: a document dispatch that runs after another one submits every document
\* that is eligible in the table it reads, those the run before submitted
\* included; a document the run before submitted is left out only when it has
\* an archive path, is unavailable, has no local copy or has three failures;
\* and over a table that is as the run before read it the two runs submit the
\* same set.
C33_ResubmitWhileEligible ==
    \A ph \in {"free", "nonfree"} :
        prior.runs > 0 /\ Finished(ph) =>
            /\ SubmittedPks(ph) = StillEligible(ph)
            /\ \A pk \in prior.submitted[ph] \ SubmittedPks(ph) : Settled(TableRead(ph)[pk])
            /\ prior.table[ph] = snap[ph] => SubmittedPks(ph) = prior.submitted[ph]

\* A second run that submitted again a document the first had submitted, and
\* left out another the first had submitted.
C33_Witness ==
    \E ph \in {"free", "nonfree"} :
        /\ prior.runs > 0
        /\ Finished(ph)
        /\ prior.submitted[ph] \cap SubmittedPks(ph) # {}
        /\ prior.submitted[ph] \ SubmittedPks(ph) # {}

\* A second run over the table as the first read it, with the same
\* submissions.
C33_SameStoreWitness ==
    \E ph \in {"free", "nonfree"} :
        /\ prior.runs > 0
        /\ Finished(ph)
        /\ prior.table[ph] = snap[ph]
        /\ SubmittedPks(ph) # {}

====
